---- MODULE Spec2Model ----
(***************************************************************************)
(* Model of geoutils.py: to_geojson, get_id_col and color_regions, with    *)
(* the python-constraint Problem / Domain / FunctionConstraint /           *)
(* BacktrackingSolver(forwardcheck=True) machinery that color_regions      *)
(* drives through csp.Problem(), addVariable, addConstraint and            *)
(* getSolution.                                                            *)
(*                                                                         *)
(* A dataframe is modelled by its UID columns (each a sequence of region   *)
(* identifiers, one per row) and by the outcome of geometry.touches for    *)
(* every ordered pair of rows.                                             *)
(***************************************************************************)
EXTENDS Integers, Sequences, FiniteSets, TLC

\* ------------------------------------------------------------------ bounds
MaxN == 3
MaxK == 3

\* number of colors to_geojson passes to color_regions
NUM_COLORS == 5

Ids == 1 .. MaxN

\* the value of a local that holds nothing yet
NoVar == 0

VARIABLES
    caller,       \* "direct": color_regions is called as a function;
                  \* "to_geojson": it is called from to_geojson
    color,        \* to_geojson's `color` parameter
    uids,         \* the dataframe's UID columns, each a sequence of ids (one per row)
    touches,      \* <<a, b>> in touches: geometry of row a touches geometry of row b
    col,          \* index in uids of the id column in use, 0 for None
    num_colors,   \* color_regions' num_colors
    pc,           \* position in the program
    xi,           \* position of the loop `for xi in matrix`
    variables,    \* problem._variables : id -> Domain
    constraints,  \* problem._constraints : sequence of <<xi, xj>>
    domains,      \* the solver's domains : id -> Domain
    assignments,  \* the solver's assignments dict
    queue,        \* the solver's queue of (variable, values, pushdomains)
    variable,     \* solver local
    values,       \* solver local
    pushdomains,  \* solver local: the ids whose Domain objects are in the list
    outcome,      \* what the call of color_regions produced: a dict, None or an exception
    escaped,      \* the exception that left the program, "" if none
    COLOR,        \* to_geojson: the dataframe's COLOR column (row -> value), <<>> if absent
    run,          \* 1 or 2: which of the two direct calls is running
    first         \* num_colors and outcome of the first direct call

vars == <<caller, color, uids, touches, col, num_colors, pc, xi, variables,
          constraints, domains, assignments, queue, variable, values,
          pushdomains, outcome, escaped, COLOR, run, first>>

solver == <<domains, assignments, queue, variable, values, pushdomains>>
input == <<caller, color, uids, touches>>

\* --------------------------------------------------------------- outcomes
Pending == [kind |-> "pending", map |-> <<>>]
None == [kind |-> "None", map |-> <<>>]
Dict(m) == [kind |-> "dict", map |-> m]
Raised(e) == [kind |-> e, map |-> <<>>]
EmptyMap == [v \in {} |-> 0]

\* ---------------------------------------------------------------- helpers
Range(s) == {s[k] : k \in 1 .. Len(s)}

\* nodes = df[col].to_numpy(); no nodes while no column is chosen
nodes == IF col = 0 THEN <<>> ELSE uids[col]

\* ------------------------------------------------- constraint.Domain (list)
\* range(1, num_colors + 1) in place of range(num_colors)
DomainFromOne(k) == [vis |-> [j \in 1 .. (IF k > 0 THEN k ELSE 0) |-> j],
                     hid |-> <<>>, st |-> <<>>]

\* the palette size kept modulo 3 before the range is built
DomainModulo(k) == [vis |-> [j \in 1 .. (IF k > 0 THEN k % 3 ELSE 0) |-> j - 1],
                    hid |-> <<>>, st |-> <<>>]

Domain(k) == [vis |-> [j \in 1 .. (IF k > 0 THEN k ELSE 0) |-> j - 1],
              hid |-> <<>>, st |-> <<>>]

resetState(d) == [vis |-> d.vis \o d.hid, hid |-> <<>>, st |-> <<>>]

pushState(d) == [d EXCEPT !.st = Append(@, Len(d.vis))]

popState(d) ==
    LET diff == d.st[Len(d.st)] - Len(d.vis)
        rest == SubSeq(d.st, 1, Len(d.st) - 1)
    IN  IF diff # 0
        THEN [vis |-> d.vis \o SubSeq(d.hid, Len(d.hid) - diff + 1, Len(d.hid)),
              hid |-> SubSeq(d.hid, 1, Len(d.hid) - diff),
              st  |-> rest]
        ELSE [d EXCEPT !.st = rest]

\* list.remove(value): the first occurrence
ListRemove(s, v) ==
    LET k == CHOOSE k \in 1 .. Len(s) : s[k] = v /\ \A m \in 1 .. k - 1 : s[m] # v
    IN  SubSeq(s, 1, k - 1) \o SubSeq(s, k + 1, Len(s))

hideValue(d, v) == [d EXCEPT !.vis = ListRemove(d.vis, v), !.hid = Append(d.hid, v)]

\* ------------------------------------------ constraint.FunctionConstraint
\* lambda a, b: a == b
funcEqual(a, b) == a = b

\* the constraint function of line 107: lambda a, b: a != b
func(a, b) == a # b

\* parms.count(Unassigned) for the constraint's variables c
Missing(c, asg) == Cardinality({p \in 1 .. Len(c) : c[p] \notin DOMAIN asg})

\* the loop of Constraint.forwardCheck over domain[:] : every value of the
\* unassigned variable u that breaks the constraint is hidden
RECURSIVE PruneValues(_, _, _, _, _, _)
PruneValues(d, vs, k, c, asg, u) ==
    IF k > Len(vs) THEN d
    ELSE LET a == IF c[1] = u THEN vs[k] ELSE asg[c[1]]
             b == IF c[2] = u THEN vs[k] ELSE asg[c[2]]
         IN  PruneValues(IF func(a, b) THEN d ELSE hideValue(d, vs[k]),
                         vs, k + 1, c, asg, u)

\* forwardCheck that also fails when a single value is left
forwardCheckStrict(c, doms, asg) ==
    LET un == {p \in 1 .. Len(c) : c[p] \notin DOMAIN asg}
    IN  IF Cardinality(un) # 1 THEN [ok |-> TRUE, doms |-> doms]
        ELSE LET u == c[CHOOSE p \in un : TRUE]
                 d == IF doms[u].vis # <<>>
                      THEN PruneValues(doms[u], doms[u].vis, 1, c, asg, u)
                      ELSE doms[u]
             IN  [ok |-> Len(d.vis) > 1, doms |-> [doms EXCEPT ![u] = d]]

\* Constraint.forwardCheck: [ok, doms]
forwardCheck(c, doms, asg) ==
    LET un == {p \in 1 .. Len(c) : c[p] \notin DOMAIN asg}
    IN  IF Cardinality(un) # 1 THEN [ok |-> TRUE, doms |-> doms]
        ELSE LET u == c[CHOOSE p \in un : TRUE]
                 d == IF doms[u].vis # <<>>
                      THEN PruneValues(doms[u], doms[u].vis, 1, c, asg, u)
                      ELSE doms[u]
             IN  [ok |-> d.vis # <<>>, doms |-> [doms EXCEPT ![u] = d]]

\* FunctionConstraint.__call__ that never forward checks
CallConstraintNoForwardCheck(c, doms, asg, fc) ==
    IF Missing(c, asg) # 0
    THEN [ok |-> TRUE, doms |-> doms]
    ELSE [ok |-> func(asg[c[1]], asg[c[2]]), doms |-> doms]

\* FunctionConstraint.__call__ with assigned=True: [ok, doms]
CallConstraint(c, doms, asg, fc) ==
    IF Missing(c, asg) # 0
    THEN IF ~fc \/ Missing(c, asg) # 1
         THEN [ok |-> TRUE, doms |-> doms]
         ELSE forwardCheck(c, doms, asg)
    ELSE [ok |-> func(asg[c[1]], asg[c[2]]), doms |-> doms]

\* the solver's loop over vconstraints[variable], stopping at the first
\* constraint that returns false
RECURSIVE CheckConstraints(_, _, _, _, _)
CheckConstraints(cs, k, doms, asg, fc) ==
    IF k > Len(cs) THEN [ok |-> TRUE, doms |-> doms]
    ELSE LET r == CallConstraint(cs[k], doms, asg, fc)
         IN  IF r.ok THEN CheckConstraints(cs, k + 1, r.doms, asg, fc) ELSE r

\* Problem._getArgs: vconstraints[v], one entry per occurrence of v in a
\* constraint's variables, in insertion order
RECURSIVE vconstraints(_, _)
vconstraints(v, cs) ==
    IF cs = <<>> THEN <<>>
    ELSE LET c == Head(cs)
             one == IF c[1] = v THEN <<c>> ELSE <<>>
             two == IF c[2] = v THEN <<c>> ELSE <<>>
         IN  one \o two \o vconstraints(v, Tail(cs))

\* ------------------------------------------------------- color_regions
\* lines 99-101: matrix[r][c] after np.fill_diagonal(matrix, False)
matrix(r, c) == IF r = c THEN FALSE ELSE <<c, r>> \in touches

\* matrix[matrix[xi] == True].index for a column whose label is unique:
\* the row positions, in row order, whose entry in column c is True
RECURSIVE RowsFrom(_, _, _)
RowsFrom(c, r, n) ==
    IF r > n THEN <<>>
    ELSE (IF matrix(r, c) THEN <<r>> ELSE <<>>) \o RowsFrom(c, r + 1, n)

TouchingRows(c) == RowsFrom(c, 1, Len(nodes))

AllRows == [r \in 1 .. Len(nodes) |-> r]

Duplicated(c) == \E r \in 1 .. Len(nodes) : r # c /\ nodes[r] = nodes[c]

\* addVariable without the duplicated-variable check
addVariableNoDuplicateCheck(vs, x, k) ==
    IF Domain(k).vis = <<>> THEN "ValueError" ELSE "ok"

\* addVariable without the empty-domain check
addVariableNoEmptyCheck(vs, x, k) ==
    IF x \in DOMAIN vs THEN "ValueError" ELSE "ok"

\* Problem.addVariable(variable, domain): "ok" or the exception it raises
addVariable(vs, x, k) ==
    IF x \in DOMAIN vs THEN "ValueError"
    ELSE IF Domain(k).vis = <<>> THEN "ValueError"
    ELSE "ok"

Extend(f, x, y) == [z \in DOMAIN f \cup {x} |-> IF z = x THEN y ELSE f[z]]
Without(f, x) == [z \in DOMAIN f \ {x} |-> f[z]]

ResetSolver ==
    /\ domains' = EmptyMap
    /\ assignments' = EmptyMap
    /\ queue' = <<>>
    /\ variable' = NoVar
    /\ values' = <<>>
    /\ pushdomains' = {}

\* an exception leaves color_regions: its locals are gone
Raise(e) ==
    /\ outcome' = Raised(e)
    /\ escaped' = e
    /\ pc' = "raised"
    /\ variables' = EmptyMap
    /\ constraints' = <<>>
    /\ xi' = 0
    /\ ResetSolver

\* color_regions returns r
Return(r) ==
    /\ outcome' = r
    /\ escaped' = escaped
    /\ pc' = "returned"
    /\ variables' = EmptyMap
    /\ constraints' = <<>>
    /\ xi' = 0
    /\ ResetSolver

\* lines 94-101: a new Problem, the domain, nodes and the adjacency matrix.
\* With no rows np.array([]) is 1-d and np.fill_diagonal raises ValueError.
color_regions ==
    /\ pc = "call"
    /\ IF Len(nodes) = 0
       THEN Raise("ValueError")
       ELSE /\ variables' = EmptyMap
            /\ constraints' = <<>>
            /\ xi' = 1
            /\ pc' = "build"
            /\ UNCHANGED <<solver, outcome, escaped>>
    /\ UNCHANGED <<input, col, num_colors, COLOR, run, first>>

\* lines 104-107: one iteration of `for xi in matrix`
RECURSIVE Pairs(_, _, _)
Pairs(x, rows, k) ==
    IF k > Len(rows) THEN <<>>
    ELSE <<<<x, nodes[rows[k]]>>>> \o Pairs(x, rows, k + 1)

AddRows(x, rows) ==
    /\ variables' = Extend(variables, x, Domain(num_colors))
    /\ constraints' = constraints \o Pairs(x, rows, 1)
    /\ xi' = xi + 1
    /\ pc' = IF xi = Len(nodes) THEN "solve" ELSE "build"
    /\ UNCHANGED <<solver, outcome, escaped>>

add_node ==
    /\ pc = "build"
    /\ xi <= Len(nodes)
    /\ LET x == nodes[xi]
       IN  IF addVariable(variables, x, num_colors) # "ok"
           THEN Raise(addVariable(variables, x, num_colors))
           ELSE IF Duplicated(xi)
           \* matrix[x] is a frame of several columns: indexing matrix with
           \* the boolean frame either raises or masks cells and keeps every row
           THEN Raise("ValueError") \/ AddRows(x, AllRows)
           ELSE AddRows(x, TouchingRows(xi))
    /\ UNCHANGED <<input, col, num_colors, COLOR, run, first>>

\* line 109: Problem.getSolution up to the start of the solver's loop
getSolution ==
    /\ pc = "solve"
    /\ LET doms == [v \in DOMAIN variables |-> resetState(variables[v])]
       IN  IF \E c \in Range(constraints) : \E p \in 1 .. 2 : c[p] \notin DOMAIN variables
           THEN Raise("KeyError")
           ELSE IF (\E v \in DOMAIN doms : doms[v].vis = <<>>) \/ DOMAIN doms = {}
           THEN Return(None)
           ELSE /\ domains' = doms
                /\ assignments' = EmptyMap
                /\ queue' = <<>>
                /\ pc' = "select"
                /\ UNCHANGED <<variable, values, pushdomains, variables,
                               constraints, xi, outcome, escaped>>
    /\ UNCHANGED <<input, col, num_colors, COLOR, run, first>>

\* ------------------------------------- constraint.BacktrackingSolver
\* the sort key of getSolutionIter: degree first, then remaining values
Key(v) == <<0 - Len(vconstraints(v, constraints)), Len(domains[v].vis), v>>

Less(a, b) ==
    \/ a[1] < b[1]
    \/ a[1] = b[1] /\ a[2] < b[2]
    \/ a[1] = b[1] /\ a[2] = b[2] /\ a[3] < b[3]

\* the list left unsorted, in an iteration order that differs between calls
NextVariableUnordered(un) ==
    IF run = 1 THEN CHOOSE v \in un : \A w \in un \ {v} : Less(Key(v), Key(w))
    ELSE CHOOSE v \in un : \A w \in un \ {v} : Less(Key(w), Key(v))

\* the first item of the sorted list whose variable is not in assignments
NextVariable(un) == CHOOSE v \in un : \A w \in un \ {v} : Less(Key(v), Key(w))

PushAll(doms, pd) == [v \in DOMAIN doms |-> IF v \in pd THEN pushState(doms[v]) ELSE doms[v]]
PopAll(doms, pd) == [v \in DOMAIN doms |-> IF v \in pd THEN popState(doms[v]) ELSE doms[v]]

\* top of the outer loop: pick the next variable, or yield the solution
select ==
    /\ pc = "select"
    /\ LET un == DOMAIN domains \ DOMAIN assignments
       IN  IF un # {}
           THEN /\ variable' = NextVariable(un)
                /\ values' = domains[variable'].vis
                /\ pushdomains' = un \ {variable'}
                /\ pc' = "try"
                /\ UNCHANGED <<domains, assignments, queue, variables,
                               constraints, xi, outcome, escaped>>
           ELSE Return(Dict(assignments))
    /\ UNCHANGED <<input, col, num_colors, COLOR, run, first>>

\* inner loop with a value left: assign values.pop(), push the domains,
\* check the variable's constraints; on success queue the state and go on
\* to the next variable, on failure pop the domains and stay in the loop
try_value ==
    /\ pc = "try"
    /\ values # <<>>
    /\ LET v == values[Len(values)]
           asg == Extend(assignments, variable, v)
           pushed == IF pushdomains # {} THEN PushAll(domains, pushdomains) ELSE domains
           r == CheckConstraints(vconstraints(variable, constraints), 1, pushed,
                                 asg, pushdomains # {})
       IN  /\ values' = SubSeq(values, 1, Len(values) - 1)
           /\ assignments' = asg
           /\ IF r.ok
              THEN /\ domains' = r.doms
                   /\ queue' = Append(queue, [variable |-> variable, values |-> values',
                                              pushdomains |-> pushdomains])
                   /\ pc' = "select"
              ELSE /\ domains' = IF pushdomains # {} THEN PopAll(r.doms, pushdomains)
                                 ELSE r.doms
                   /\ queue' = queue
                   /\ pc' = "try"
    /\ UNCHANGED <<input, col, num_colors, COLOR, run, first, variable,
                   pushdomains, variables, constraints, xi, outcome, escaped>>

\* `while queue:` of the inner loop: pop states until one has a value left
RECURSIVE Unwind(_, _, _)
Unwind(asg, q, doms) ==
    IF q = <<>> THEN [kind |-> "exhausted", asg |-> asg, q |-> q, doms |-> doms,
                      top |-> [variable |-> NoVar, values |-> <<>>, pushdomains |-> {}]]
    ELSE LET t == q[Len(q)]
             rest == SubSeq(q, 1, Len(q) - 1)
             d == IF t.pushdomains # {} THEN PopAll(doms, t.pushdomains) ELSE doms
         IN  IF t.values # <<>>
             THEN [kind |-> "found", asg |-> asg, q |-> rest, doms |-> d, top |-> t]
             ELSE IF t.variable \notin DOMAIN asg
             THEN [kind |-> "KeyError", asg |-> asg, q |-> rest, doms |-> d, top |-> t]
             ELSE Unwind(Without(asg, t.variable), rest, d)

\* inner loop with no value left: delete the assignment and go back to the
\* last queued variable that has a value left; the generator ends, and
\* getSolution returns None, when there is none
backtrack ==
    /\ pc = "try"
    /\ values = <<>>
    /\ IF variable \notin DOMAIN assignments
       THEN Raise("KeyError")
       ELSE LET u == Unwind(Without(assignments, variable), queue, domains)
            IN  IF u.kind = "found"
                THEN /\ assignments' = u.asg
                     /\ queue' = u.q
                     /\ domains' = u.doms
                     /\ variable' = u.top.variable
                     /\ values' = u.top.values
                     /\ pushdomains' = u.top.pushdomains
                     /\ pc' = "try"
                     /\ UNCHANGED <<variables, constraints, xi, outcome, escaped>>
                ELSE IF u.kind = "KeyError" THEN Raise("KeyError")
                ELSE Return(None)
    /\ UNCHANGED <<input, col, num_colors, COLOR, run, first>>

\* ------------------------------------------------------------ get_id_col
\* lines 67-71: the first UID column whose values are all different, 0 for None
get_id_col(cols) ==
    LET unique == {c \in 1 .. Len(cols) : Cardinality(Range(cols[c])) = Len(cols[c])}
    IN  IF unique = {} THEN 0 ELSE CHOOSE c \in unique : \A d \in unique : c <= d

\* ------------------------------------------------------------ to_geojson
\* lines 30-43: read and filter, then call color_regions when color is set
\* and an id column exists
to_geojson ==
    /\ pc = "start"
    /\ IF color /\ get_id_col(uids) # 0
       THEN /\ col' = get_id_col(uids)
            /\ num_colors' = NUM_COLORS
            /\ pc' = "call"
       ELSE /\ pc' = "convert"
            /\ UNCHANGED <<col, num_colors>>
    /\ UNCHANGED <<input, xi, variables, constraints, solver, outcome, escaped, COLOR,
                   run, first>>

\* lines 44-46: the COLOR column is set to -1, then `for node in color_map`
\* overwrites the rows of every node; iterating None raises TypeError
apply_colors ==
    /\ pc = "returned"
    /\ caller = "to_geojson"
    /\ IF outcome.kind = "dict"
       THEN /\ COLOR' = [r \in 1 .. Len(nodes) |->
                            IF nodes[r] \in DOMAIN outcome.map
                            THEN outcome.map[nodes[r]] ELSE 0 - 1]
            /\ pc' = "convert"
            /\ escaped' = escaped
       ELSE /\ COLOR' = [r \in 1 .. Len(nodes) |-> 0 - 1]
            /\ pc' = "raised"
            /\ escaped' = "TypeError"
    /\ UNCHANGED outcome
    /\ UNCHANGED <<input, col, num_colors, xi, variables, constraints, solver,
                   run, first>>

\* lines 49-52: to_crs and to_file
write_output ==
    /\ pc = "convert"
    /\ pc' = "written"
    /\ UNCHANGED <<input, col, num_colors, xi, variables, constraints, solver,
                   outcome, escaped, COLOR, run, first>>

\* ------------------------------------------------------- a second call
\* color_regions is called again on the same dataframe and column, with the
\* same or a larger number of colors
second_call ==
    /\ caller = "direct"
    /\ run = 1
    /\ pc \in {"returned", "raised"}
    /\ \E k \in num_colors .. MaxK :
          /\ num_colors' = k
          /\ first' = [k |-> num_colors, out |-> outcome]
    /\ run' = 2
    /\ outcome' = Pending
    /\ escaped' = ""
    /\ pc' = "call"
    /\ UNCHANGED <<input, col, xi, variables, constraints, solver, COLOR>>

\* ------------------------------------------------------------------ Init
RECURSIVE SeqsUpTo(_, _)
SeqsUpTo(S, n) ==
    IF n = 0 THEN {<<>>}
    ELSE LET shorter == SeqsUpTo(S, n - 1)
         IN  shorter \cup {Append(s, x) : s \in {t \in shorter : Len(t) = n - 1}, x \in S}

\* outcomes of geometry.touches over n rows: symmetric; a geometry may or
\* may not be reported as touching itself
TouchSets(n) ==
    {{<<a, b>> \in (1 .. n) \X (1 .. n) :
         \/ a # b /\ {a, b} \in E
         \/ a = b /\ self} :
      E \in SUBSET {{a, b} : a, b \in 1 .. n}, self \in BOOLEAN}

Distinct(ids) == Cardinality(Range(ids)) = Len(ids)

\* every one of n rows touches every other
AllTouch(n) == {<<a, b>> \in (1 .. n) \X (1 .. n) : a # b}

\* a dataframe whose NUM_COLORS + 1 regions all touch one another
CliqueIds == [r \in 1 .. NUM_COLORS + 1 |-> r]
CliqueTouches == AllTouch(NUM_COLORS + 1)

Init ==
    /\ \/ /\ caller = "direct"
          /\ color = FALSE
          /\ \E ids \in SeqsUpTo(Ids, MaxN) :
                /\ uids = <<ids>>
                /\ touches \in IF Distinct(ids) THEN TouchSets(Len(ids))
                                                ELSE {{}, AllTouch(Len(ids))}
          /\ col = 1
          /\ num_colors \in (0 - 1) .. MaxK
          /\ pc = "call"
       \/ /\ caller = "to_geojson"
          /\ color \in BOOLEAN
          /\ \/ uids = <<>> /\ touches = {}
             \/ \E ids \in SeqsUpTo(Ids, MaxN) :
                   /\ uids \in {<<ids>>, <<[r \in 1 .. Len(ids) |-> 1], ids>>}
                   /\ touches \in {{}, AllTouch(Len(ids))}
             \/ uids = <<CliqueIds>> /\ touches = CliqueTouches
          /\ col = 0
          /\ num_colors = 0
          /\ pc = "start"
    /\ xi = 0
    /\ variables = EmptyMap
    /\ constraints = <<>>
    /\ domains = EmptyMap
    /\ assignments = EmptyMap
    /\ queue = <<>>
    /\ variable = NoVar
    /\ values = <<>>
    /\ pushdomains = {}
    /\ outcome = Pending
    /\ escaped = ""
    /\ COLOR = <<>>
    /\ run = 1
    /\ first = [k |-> 0, out |-> Pending]

Next ==
    \/ to_geojson
    \/ color_regions
    \/ add_node
    \/ getSolution
    \/ select
    \/ try_value
    \/ backtrack
    \/ apply_colors
    \/ write_output
    \/ second_call

Spec == Init /\ [][Next]_vars

\* ================================================================ claims
\* color_regions has returned or raised
Finished == pc \in {"returned", "raised"} /\ outcome.kind # "pending"

\* the adjacency relation of the spec: rows that touch, self-pairs excluded
Adjacent(a, b) == a # b /\ <<a, b>> \in touches

Triangle == Len(nodes) = 3 /\ \A a, b \in 1 .. 3 : a # b => <<a, b>> \in touches

\* a proper coloring with num_colors colors exists
Colorable ==
    \E f \in [Range(nodes) -> 0 .. num_colors - 1] :
        \A a, b \in 1 .. Len(nodes) : Adjacent(a, b) => f[nodes[a]] # f[nodes[b]]

ValidInput == col # 0 /\ Distinct(nodes) /\ num_colors >= 1

\* C1 (Validity): whenever color_regions returns an assignment, any two
\* rows that touch (self-pairs excluded) have different colors in it.
C1_Validity ==
    outcome.kind = "dict" =>
        \A a, b \in 1 .. Len(nodes) :
            (/\ Adjacent(a, b)
             /\ nodes[a] \in DOMAIN outcome.map
             /\ nodes[b] \in DOMAIN outcome.map)
            => outcome.map[nodes[a]] # outcome.map[nodes[b]]

C1_Witness ==
    /\ outcome.kind = "dict"
    /\ Len(nodes) = 3
    /\ Adjacent(1, 2) /\ Adjacent(2, 3) /\ ~Adjacent(1, 3)
    /\ outcome.map[nodes[1]] = outcome.map[nodes[3]]

\* C2 (Totality): whenever color_regions returns an assignment, its keys are
\* exactly the input regions, one per row, and every value is in [0, K).
C2_Totality ==
    outcome.kind = "dict" =>
        /\ DOMAIN outcome.map = Range(nodes)
        /\ Cardinality(DOMAIN outcome.map) = Len(nodes)
        /\ \A x \in DOMAIN outcome.map : outcome.map[x] \in 0 .. num_colors - 1

C2_Witness ==
    /\ outcome.kind = "dict"
    /\ Triangle
    /\ num_colors = 3
    /\ {outcome.map[x] : x \in DOMAIN outcome.map} = {0, 1, 2}

\* C3 (Completeness): for valid input color_regions returns None exactly
\* when no proper K-coloring exists; for at least one region it returns an
\* assignment whenever one exists (so a triangle gives None for K = 2 and an
\* assignment for K = 3, and regions without adjacency succeed for K = 1).
C3_Completeness ==
    (ValidInput /\ Finished) =>
        /\ (outcome = None) <=> ~Colorable
        /\ (Len(nodes) >= 1 /\ Colorable) => outcome.kind = "dict"

C3_Witness ==
    /\ Triangle
    /\ run = 2
    /\ first.k = 2 /\ first.out = None
    /\ num_colors = 3 /\ outcome.kind = "dict"

\* C4 (Infeasible is handled by the caller): when color_regions finds no
\* coloring, to_geojson handles the result and no exception escapes.
C4_InfeasibleHandled ==
    (caller = "to_geojson" /\ outcome = None) => (pc # "raised" /\ escaped = "")

\* C5 (duplicate identifiers): when the identifiers handed to color_regions
\* are not pairwise different, the call raises ValueError before the solver
\* is started, and it never returns an assignment or None.
C5_DuplicateIds ==
    (col # 0 /\ ~Distinct(nodes)) =>
        /\ pc \notin {"solve", "select", "try", "returned"}
        /\ outcome.kind \in {"pending", "ValueError"}
        /\ pc = "raised" => outcome.kind = "ValueError"

C5_Witness ==
    /\ col # 0
    /\ Len(nodes) = 3 /\ nodes[1] = nodes[3] /\ nodes[1] # nodes[2]
    /\ num_colors >= 1
    /\ pc = "raised"
    /\ outcome.kind = "ValueError"

\* C6 (palette size): for every region set, the empty one included, a call
\* with K < 1 raises ValueError before the solver is started and is never
\* reported as None or as an assignment.
C6_PaletteSize ==
    (col # 0 /\ num_colors < 1) =>
        /\ pc \notin {"solve", "select", "try", "returned"}
        /\ outcome.kind \in {"pending", "ValueError"}
        /\ pc = "raised" => outcome.kind = "ValueError"

C6_Witness ==
    /\ col # 0
    /\ num_colors < 1
    /\ Len(nodes) >= 2 /\ Distinct(nodes)
    /\ pc = "raised"
    /\ outcome.kind = "ValueError"

\* C7 (empty graph): color_regions with zero regions and K >= 1 returns the
\* empty assignment.
C7_EmptyGraph ==
    (col # 0 /\ Len(nodes) = 0 /\ num_colors >= 1 /\ Finished)
        => outcome = Dict(EmptyMap)

C9_Monotonic ==
    (run = 2 /\ first.out.kind = "dict" /\ num_colors > first.k /\ Finished)
        => outcome.kind = "dict"

C9_Witness ==
    /\ run = 2
    /\ first.out.kind = "dict"
    /\ first.k = 2
    /\ num_colors = 3
    /\ Len(nodes) = 3 /\ Adjacent(1, 2) /\ Adjacent(2, 3)
    /\ outcome.kind = "dict"

\* the partial assignment is proper
Proper ==
    \A a, b \in 1 .. Len(nodes) :
        (/\ Adjacent(a, b)
         /\ nodes[a] \in DOMAIN assignments
         /\ nodes[b] \in DOMAIN assignments)
        => assignments[nodes[a]] # assignments[nodes[b]]

\* the domain of every region outside S holds no color of a neighbour in S
DomainsAgree(S) ==
    \A a, b \in 1 .. Len(nodes) :
        (/\ Adjacent(a, b)
         /\ nodes[a] \notin S
         /\ nodes[b] \in S)
        => assignments[nodes[b]] \notin Range(domains[nodes[a]].vis)

\* the regions whose trial succeeded
Committed == {queue[k].variable : k \in 1 .. Len(queue)}

\* C10 as stated (Search invariant): in every state of the search the
\* partial assignment is proper and the domain of every unassigned region
\* holds only values that differ from the colors of its assigned neighbours.
C10_SearchInvariant ==
    pc \in {"select", "try"} =>
        /\ Proper
        /\ DomainsAgree(DOMAIN assignments)

\* C10 as amended: in every state of the search the assignments are proper,
\* and the domain of every region whose trial has not succeeded holds only
\* values that differ from the colors of the neighbours whose trial has
\* succeeded; when the next region is selected these are all the assigned
\* regions.
C10_Amended ==
    pc \in {"select", "try"} =>
        /\ Proper
        /\ Committed \subseteq DOMAIN assignments
        /\ DomainsAgree(Committed)
        /\ pc = "select" => Committed = DOMAIN assignments

C10_Witness ==
    /\ pc = "try"
    /\ Triangle
    /\ Len(queue) = 1
    /\ variable \in DOMAIN assignments
    /\ variable \notin Committed
    /\ \E a \in 1 .. 3 : /\ nodes[a] \notin DOMAIN assignments
                         /\ assignments[variable] \in Range(domains[nodes[a]].vis)

====
